---------------------------- MODULE Spec2Model ----------------------------
(***************************************************************************)
(* The WorkspaceEdit application engine of lsp-cli: applyWorkspaceEdit,    *)
(* applyFileOperation, applyTextEdits and formatWorkspaceEdit.             *)
(*                                                                         *)
(* Text is a sequence of one-character strings; NL is the line break.      *)
(* A file system is a function from paths to [exists, text].  Every        *)
(* awaited filesystem call is two steps: the step that issues it (the      *)
(* synchronous code up to the await) and the step that completes it, with  *)
(* success or with a failure chosen by the environment.                    *)
(***************************************************************************)
EXTENDS Integers, Sequences, FiniteSets, TLC

(***************************************************************************)
(* Bounds of the model.                                                    *)
(***************************************************************************)
MaxEntries == 3     \* entries of a documentChanges sequence
MaxEdits == 2       \* TextEdits of one batch under SpecText

NL == "\n"

Min(a, b) == IF a < b THEN a ELSE b
Max(a, b) == IF a > b THEN a ELSE b

(***************************************************************************)
(* String primitives of the runtime, as the code uses them.                *)
(***************************************************************************)
\* String.prototype.substring(from, to): both indices clamped to 0..length,
\* swapped when from > to.
Substring(s, from, to) ==
    LET f == Min(Max(from, 0), Len(s))
        t == Min(Max(to, 0), Len(s))
    IN  SubSeq(s, Min(f, t) + 1, Max(f, t))

\* String.prototype.substring(from): to the end of the string.
SubstringFrom(s, from) == Substring(s, from, Len(s))

\* Index of the first line break of s, 0 if there is none.
FirstNL(s) ==
    IF \E i \in 1..Len(s) : s[i] = NL
    THEN CHOOSE i \in 1..Len(s) : s[i] = NL /\ \A j \in 1..(i - 1) : s[j] # NL
    ELSE 0

\* String.prototype.split('\n'): always at least one piece.
RECURSIVE Split(_)
Split(s) ==
    IF FirstNL(s) = 0 THEN <<s>>
    ELSE <<SubSeq(s, 1, FirstNL(s) - 1)>> \o Split(SubSeq(s, FirstNL(s) + 1, Len(s)))

\* Array.prototype.join('\n').
RECURSIVE JoinWithoutBreaks(_)
JoinWithoutBreaks(ls) ==
    IF Len(ls) = 0 THEN <<>> ELSE ls[1] \o JoinWithoutBreaks(Tail(ls))

RECURSIVE Join(_)
Join(ls) ==
    IF Len(ls) = 0 THEN <<>>
    ELSE IF Len(ls) = 1 THEN ls[1]
    ELSE ls[1] \o <<NL>> \o Join(Tail(ls))

\* Array.prototype.reverse().
Reverse(s) == [i \in 1..Len(s) |-> s[Len(s) + 1 - i]]

(***************************************************************************)
(* applyTextEdits: the sort (lines 104-110).                               *)
(***************************************************************************)
\* The comparator handed to sort: negative when a goes before b.
Compare(a, b) ==
    IF b.range.start.line - a.range.start.line # 0
    THEN b.range.start.line - a.range.start.line
    ELSE b.range.start.character - a.range.start.character

\* Array.prototype.sort is stable: e goes after every element that does not
\* compare greater than it.
RECURSIVE InsertSortedBeforeTies(_, _)
InsertSortedBeforeTies(sorted, e) ==
    IF Len(sorted) = 0 THEN <<e>>
    ELSE IF Compare(sorted[1], e) < 0
         THEN <<sorted[1]>> \o InsertSortedBeforeTies(Tail(sorted), e)
         ELSE <<e>> \o sorted

RECURSIVE InsertSorted(_, _)
InsertSorted(sorted, e) ==
    IF Len(sorted) = 0 THEN <<e>>
    ELSE IF Compare(sorted[1], e) <= 0
         THEN <<sorted[1]>> \o InsertSorted(Tail(sorted), e)
         ELSE <<e>> \o sorted

RECURSIVE SortEdits(_)
SortEdits(edits) ==
    IF Len(edits) = 0 THEN <<>>
    ELSE InsertSorted(SortEdits(SubSeq(edits, 1, Len(edits) - 1)), edits[Len(edits)])

(***************************************************************************)
(* applyTextEdits: one edit on the line array (lines 130-152).  The line   *)
(* array is 0-based in the code and 1-based here.  Reading a character     *)
(* range of a line that does not exist throws a TypeError: ok = FALSE.     *)
(***************************************************************************)
HasLine(lines, n) == n >= 0 /\ n < Len(lines)

\* Array.prototype.splice(start, deleteCount, ...items) for start within the
\* array; a deleteCount below 0 removes nothing.
Splice(lines, start, deleteCount, items) ==
    LET d == Min(Max(deleteCount, 0), Len(lines) - start)
    IN  SubSeq(lines, 1, start) \o items \o SubSeq(lines, start + d + 1, Len(lines))

SingleLineEdit(lines, e) ==
    LET line == lines[e.range.start.line + 1]
        before == Substring(line, 0, e.range.start.character)
        after == SubstringFrom(line, e.range.end.character)
    IN  [lines EXCEPT ![e.range.start.line + 1] = before \o e.newText \o after]

MultiLineEditNoSuffix(lines, e) ==
    LET startLine == lines[e.range.start.line + 1]
        beforeStart == Substring(startLine, 0, e.range.start.character)
        newLines == Split(beforeStart \o e.newText)
    IN  Splice(lines, e.range.start.line,
               e.range.end.line - e.range.start.line + 1, newLines)

MultiLineEdit(lines, e) ==
    LET startLine == lines[e.range.start.line + 1]
        endLine == lines[e.range.end.line + 1]
        beforeStart == Substring(startLine, 0, e.range.start.character)
        afterEnd == SubstringFrom(endLine, e.range.end.character)
        newLines == Split(beforeStart \o e.newText \o afterEnd)
    IN  Splice(lines, e.range.start.line,
               e.range.end.line - e.range.start.line + 1, newLines)

\* One iteration of the loop: [ok, lines]; ok = FALSE is the TypeError.
ApplyEdit(lines, e) ==
    IF e.range.start.line = e.range.end.line
    THEN IF HasLine(lines, e.range.start.line)
         THEN [ok |-> TRUE, lines |-> SingleLineEdit(lines, e)]
         ELSE [ok |-> FALSE, lines |-> lines]
    ELSE IF HasLine(lines, e.range.start.line) /\ HasLine(lines, e.range.end.line)
         THEN [ok |-> TRUE, lines |-> MultiLineEdit(lines, e)]
         ELSE [ok |-> FALSE, lines |-> lines]

\* The whole loop over the sorted edits; it stops at the first TypeError.
RECURSIVE ApplyAllSkipFailed(_, _)
ApplyAllSkipFailed(lines, sorted) ==
    IF Len(sorted) = 0 THEN [ok |-> TRUE, lines |-> lines]
    ELSE ApplyAllSkipFailed(ApplyEdit(lines, sorted[1]).lines, Tail(sorted))

RECURSIVE ApplyAll(_, _)
ApplyAll(lines, sorted) ==
    IF Len(sorted) = 0 THEN [ok |-> TRUE, lines |-> lines]
    ELSE LET r == ApplyEdit(lines, sorted[1])
         IN  IF r.ok THEN ApplyAll(r.lines, Tail(sorted)) ELSE r


(***************************************************************************)
(* Collaborators: URI-to-path translation and the display path.            *)
(***************************************************************************)
UriA == "file:///w/a"
UriB == "file:///w/b"
Missing == "undefined"      \* a property the operation does not carry
Uris == {UriA, UriB}

PathA == "/w/a"
PathB == "/w/b"
Paths == {PathA, PathB}

\* urlToFilePath of ../utils.js: a pure resolution of a file URI to its path.
urlToFilePath(uri) == IF uri = UriA THEN PathA ELSE PathB

\* path.relative(process.cwd(), filePath) with the working directory /w.
RelativePath(p) == IF p = PathA THEN "a" ELSE "b"

(***************************************************************************)
(* The data model.  A documentChanges entry carries a kind ("edit" stands  *)
(* for a TextDocumentEdit, which has no kind property).                    *)
(***************************************************************************)
Pos(l, c) == [line |-> l, character |-> c]
Range(s, e) == [start |-> s, end |-> e]
TextEdit(r, t) == [range |-> r, newText |-> t]

\* start is not after end in (line, character) order.
PosLeq(p, q) == p.line < q.line \/ (p.line = q.line /\ p.character <= q.character)

CreateFile(uri) ==
    [kind |-> "create", uri |-> uri, oldUri |-> Missing, newUri |-> Missing, edits |-> <<>>]
DeleteFile(uri) ==
    [kind |-> "delete", uri |-> uri, oldUri |-> Missing, newUri |-> Missing, edits |-> <<>>]
RenameFile(old, new) ==
    [kind |-> "rename", uri |-> Missing, oldUri |-> old, newUri |-> new, edits |-> <<>>]
TextDocumentEdit(uri, edits) ==
    [kind |-> "edit", uri |-> uri, oldUri |-> Missing, newUri |-> Missing, edits |-> edits]

NoFile == [exists |-> FALSE, text |-> <<>>]
File(t) == [exists |-> TRUE, text |-> t]

VARIABLES
    edit,       \* the WorkspaceEdit: [documentChanges, changes], each [present, items]
    dryRun,     \* the dryRun argument
    fs,         \* the file system: path -> [exists, text]
    fs0,        \* the file system when applyWorkspaceEdit was called
    pc,         \* "loop" | "fileop" | "read" | "write" | "done" | "failed"
    idx,        \* 1-based index of the current work item
    inflight,   \* the awaited filesystem call, op = "none" when there is none
    sortedEdits,\* sortedEdits of the applyTextEdits call in progress
    results,    \* the results array
    error,      \* the error thrown out of applyWorkspaceEdit, <<>> if none
    log,        \* the lines handed to log(), in order
    trace,      \* the filesystem calls started and ended, in order
    formatted   \* [called, lines]: the outcome of formatWorkspaceEdit(edit)

vars == <<edit, dryRun, fs, fs0, pc, idx, inflight, sortedEdits, results, error, log,
          trace, formatted>>

NoCall == [op |-> "none", path |-> "", to |-> "", data |-> <<>>]
Call(op, path, to, data) == [op |-> op, path |-> path, to |-> to, data |-> data]

\* The plan: documentChanges when present, else the legacy map's entries in
\* insertion order, else nothing (lines 17, 31).
WorkItemsBoth(e) ==
    (IF e.documentChanges.present THEN e.documentChanges.items ELSE <<>>)
    \o (IF e.changes.present
        THEN [i \in 1..Len(e.changes.items) |->
                TextDocumentEdit(e.changes.items[i][1], e.changes.items[i][2])]
        ELSE <<>>)

WorkItems(e) ==
    IF e.documentChanges.present THEN e.documentChanges.items
    ELSE IF e.changes.present
         THEN [i \in 1..Len(e.changes.items) |->
                 TextDocumentEdit(e.changes.items[i][1], e.changes.items[i][2])]
         ELSE <<>>

Item == WorkItems(edit)[idx]
AtItem(kind) == pc = "loop" /\ idx <= Len(WorkItems(edit)) /\ Item.kind = kind

(***************************************************************************)
(* Log lines and trace events.                                             *)
(***************************************************************************)
\* A line handed to log(); `calls` is the number of filesystem calls and
\* completions made before the line is logged.
LogLineAfterCall(what, dry, path, to, span, text) ==
    [item |-> idx, what |-> what, dry |-> dry, path |-> path, to |-> to,
     span |-> span, text |-> text, calls |-> Len(trace) + 1]

LogLine(what, dry, path, to, span, text) ==
    [item |-> idx, what |-> what, dry |-> dry, path |-> path, to |-> to,
     span |-> span, text |-> text, calls |-> Len(trace)]

\* `  [DRY RUN] ${startLine}:${startChar}-${endLine}:${endChar}: "${newText}"`
Span(e) == <<e.range.start.line + 1, e.range.start.character,
             e.range.end.line + 1, e.range.end.character>>
DescLine(path, e) == LogLine("edit", TRUE, path, "", Span(e), e.newText)

Started(c) == [ev |-> "start", item |-> idx, call |-> c]
Ended(c, ok) == [ev |-> IF ok THEN "end" ELSE "fail", item |-> idx, call |-> c]

\* Suspend at an awaited call.
AwaitNoSuspend(c, at) ==
    /\ inflight' = c
    /\ pc' = "loop"
    /\ trace' = Append(trace, Started(c))

Await(c, at) ==
    /\ inflight' = c
    /\ pc' = at
    /\ trace' = Append(trace, Started(c))

\* throw: the error leaves applyWorkspaceEdit, which has no try/catch.
ThrowCaught(e) ==
    /\ pc' = "loop"
    /\ error' = <<>>
    /\ inflight' = NoCall

Throw(e) ==
    /\ pc' = "failed"
    /\ error' = e
    /\ inflight' = NoCall

\* The next iteration of the for loop.
NextItem ==
    /\ pc' = "loop"
    /\ idx' = idx + 1
    /\ inflight' = NoCall

\* `if (!dryRun) { await <call> }` of applyFileOperation (lines 59-61, 68-70,
\* 80-84): the call is made in real mode only.
PerformAlways(dry, c) ==
    /\ Await(c, "fileop")
    /\ UNCHANGED <<idx, error>>

Perform(dry, c) ==
    IF dry
    THEN NextItem /\ UNCHANGED <<error, trace>>
    ELSE /\ Await(c, "fileop")
         /\ UNCHANGED <<idx, error>>

\* The guards of applyFileOperation (lines 56, 65, 74).
LacksUri(op) == op.uri = Missing

RenameLacksOldUri(op) == op.oldUri = Missing

RenameLacksEndpoint(op) == op.oldUri = Missing \/ op.newUri = Missing

FsFailure(c) == <<"FilesystemFailure", c.op, c.path>>

(***************************************************************************)
(* applyFileOperation (lines 45-88), one action per case of the switch, up *)
(* to its await; FileOpDone is the completion of that await.               *)
(***************************************************************************)
ApplyCreate ==
    /\ AtItem("create")
    /\ IF LacksUri(Item)
       THEN /\ Throw(<<"CreateFile missing uri">>)
            /\ UNCHANGED <<idx, log, trace>>
       ELSE /\ log' = Append(log, LogLine("Create file", dryRun,
                                          urlToFilePath(Item.uri), "", <<>>, <<>>))
            /\ Perform(dryRun, Call("write", urlToFilePath(Item.uri), "", <<>>))
    /\ UNCHANGED <<edit, dryRun, fs, fs0, sortedEdits, results, formatted>>

ApplyDelete ==
    /\ AtItem("delete")
    /\ IF LacksUri(Item)
       THEN /\ Throw(<<"DeleteFile missing uri">>)
            /\ UNCHANGED <<idx, log, trace>>
       ELSE /\ log' = Append(log, LogLine("Delete file", dryRun,
                                          urlToFilePath(Item.uri), "", <<>>, <<>>))
            /\ Perform(dryRun, Call("delete", urlToFilePath(Item.uri), "", <<>>))
    /\ UNCHANGED <<edit, dryRun, fs, fs0, sortedEdits, results, formatted>>

ApplyRename ==
    /\ AtItem("rename")
    /\ IF RenameLacksEndpoint(Item)
       THEN /\ Throw(<<"RenameFile missing oldUri or newUri">>)
            /\ UNCHANGED <<idx, log, trace>>
       ELSE /\ log' = Append(log, LogLine("Rename file", dryRun,
                                          urlToFilePath(Item.oldUri),
                                          urlToFilePath(Item.newUri), <<>>, <<>>))
            /\ Perform(dryRun, Call("rename", urlToFilePath(Item.oldUri),
                                     urlToFilePath(Item.newUri), <<>>))
    /\ UNCHANGED <<edit, dryRun, fs, fs0, sortedEdits, results, formatted>>

(***************************************************************************)
(* The filesystem primitives.  A call can succeed only where the file it   *)
(* reads, deletes or renames exists; any call can fail, and a failed call  *)
(* leaves the file system as it was.                                       *)
(***************************************************************************)
CanSucceed(c) == c.op = "write" \/ fs[c.path].exists

FsAfter(c) ==
    IF c.op = "write" THEN [fs EXCEPT ![c.path] = File(c.data)]
    ELSE IF c.op = "delete" THEN [fs EXCEPT ![c.path] = NoFile]
    ELSE IF c.op = "rename" THEN [fs EXCEPT ![c.to] = fs[c.path], ![c.path] = NoFile]
    ELSE fs

\* The await of applyFileOperation resumes (lines 60, 69, 83), and the loop
\* of applyWorkspaceEdit goes on (line 21) or the failure propagates.
FileOpDone ==
    /\ pc = "fileop"
    /\ \E ok \in BOOLEAN :
         /\ ok => CanSucceed(inflight)
         /\ trace' = Append(trace, Ended(inflight, ok))
         /\ IF ok
            THEN /\ fs' = FsAfter(inflight)
                 /\ NextItem
                 /\ UNCHANGED error
            ELSE /\ Throw(FsFailure(inflight))
                 /\ UNCHANGED <<fs, idx>>
    /\ UNCHANGED <<edit, dryRun, fs0, sortedEdits, results, log, formatted>>

(***************************************************************************)
(* applyTextEdits (lines 95-158) and the push of its result (lines 24-26,  *)
(* 33-35).                                                                 *)
(***************************************************************************)
\* The value applyTextEdits returns for a non-empty list (lines 121, 157).
AppliedOffByOne(edits) == Len(edits) - 1

Applied(edits) == Len(edits)

\* `if (edits.length === 0) return 0` (line 100).
NeverEmpty(edits) == FALSE

IsEmpty(edits) == Len(edits) = 0

Result(item, n) == [file |-> RelativePath(urlToFilePath(item.uri)), changes |-> n]

\* results.push (lines 26, 35).
PushFront(rs, r) == <<r>> \o rs

Push(rs, r) == Append(rs, r)

\* The order in which the dry run describes the edits (line 114).
DryRunOrderAsSorted(sorted) == sorted

DryRunOrder(sorted) == Reverse(sorted)

RECURSIVE DescLines(_, _)
DescLines(path, es) ==
    IF Len(es) = 0 THEN <<>>
    ELSE <<DescLine(path, es[1])>> \o DescLines(path, Tail(es))

\* `[...edits].sort(...)` (line 106): the sort works on a copy, so the list of
\* the WorkspaceEdit keeps its order.
SortedInPlace(edits, sorted) == sorted

InputAfterSort(edits, sorted) == edits

\* The WorkspaceEdit with es as the edit list of work item i.
WithEdits(e, i, es) ==
    IF e.documentChanges.present
    THEN [e EXCEPT !.documentChanges.items[i].edits = es]
    ELSE [e EXCEPT !.changes.items[i][2] = es]

\* Lines 100-126: the empty list, the announcement, the sort, the dry run,
\* and the start of the read.
TextBegin ==
    /\ AtItem("edit")
    /\ LET filePath == urlToFilePath(Item.uri)
           edits == Item.edits
       IN  IF IsEmpty(edits)
           THEN /\ results' = Push(results, Result(Item, 0))
                /\ NextItem
                /\ UNCHANGED <<log, trace, sortedEdits, error>>
           ELSE /\ sortedEdits' = SortEdits(edits)
                /\ IF dryRun
                   THEN /\ log' = Append(log, LogLine("Applying", TRUE, filePath, "",
                                                      <<Len(edits)>>, <<>>))
                                  \o DescLines(filePath, DryRunOrder(SortEdits(edits)))
                        /\ results' = Push(results, Result(Item, Applied(edits)))
                        /\ NextItem
                        /\ UNCHANGED <<trace, error>>
                   ELSE /\ log' = Append(log, LogLine("Applying", FALSE, filePath, "",
                                                      <<Len(edits)>>, <<>>))
                        /\ Await(Call("read", filePath, "", <<>>), "read")
                        /\ UNCHANGED <<results, idx, error>>
    /\ edit' = WithEdits(edit, idx, InputAfterSort(Item.edits, SortEdits(Item.edits)))
    /\ UNCHANGED <<dryRun, fs, fs0, formatted>>

\* Lines 126-155: the read resumes, the content is split, every edit is
\* applied in sorted order, and the write of the joined lines starts.
ReadDone ==
    /\ pc = "read"
    /\ \E ok \in BOOLEAN :
         /\ ok => CanSucceed(inflight)
         /\ IF ok
            THEN LET r == ApplyAll(Split(fs[inflight.path].text), sortedEdits)
                 IN  IF r.ok
                     THEN /\ inflight' = Call("write", inflight.path, "", Join(r.lines))
                          /\ pc' = "write"
                          /\ trace' = trace \o <<Ended(inflight, TRUE),
                                                 Started(Call("write", inflight.path,
                                                              "", Join(r.lines)))>>
                          /\ UNCHANGED error
                     ELSE /\ Throw(<<"TypeError">>)
                          /\ trace' = Append(trace, Ended(inflight, TRUE))
            ELSE /\ Throw(FsFailure(inflight))
                 /\ trace' = Append(trace, Ended(inflight, FALSE))
    /\ UNCHANGED <<edit, dryRun, fs, fs0, idx, sortedEdits, results, log, formatted>>

\* Lines 155-157 and 26 / 35: the write resumes, the count is returned and
\* pushed to the results.
WriteDone ==
    /\ pc = "write"
    /\ \E ok \in BOOLEAN :
         /\ trace' = Append(trace, Ended(inflight, ok))
         /\ IF ok
            THEN /\ fs' = FsAfter(inflight)
                 /\ results' = Push(results, Result(Item, Applied(Item.edits)))
                 /\ NextItem
                 /\ UNCHANGED error
            ELSE /\ Throw(FsFailure(inflight))
                 /\ UNCHANGED <<fs, idx, results>>
    /\ UNCHANGED <<edit, dryRun, fs0, sortedEdits, log, formatted>>

\* Line 39: the loop is over, the results are returned.
Finish ==
    /\ pc = "loop"
    /\ idx > Len(WorkItems(edit))
    /\ pc' = "done"
    /\ UNCHANGED <<edit, dryRun, fs, fs0, idx, inflight, sortedEdits, results, error, log,
                   trace, formatted>>

(***************************************************************************)
(* formatWorkspaceEdit (lines 163-200): the lines it pushes; the string it *)
(* returns is these lines joined by line breaks.                           *)
(***************************************************************************)
FormatLine(what, path, to, span, text) ==
    [what |-> what, path |-> path, to |-> to, span |-> span, text |-> text]

\* Lines 181-183 and 192-194.
EditLine(e) == FormatLine("span", "", "", Span(e), e.newText)

EditLinesSorted(es) == [i \in 1..Len(es) |-> EditLine(SortEdits(es)[i])]

RECURSIVE EditLines(_)
EditLines(es) ==
    IF Len(es) = 0 THEN <<>> ELSE <<EditLine(es[1])>> \o EditLines(Tail(es))

\* Lines 168-185: the lines of one documentChanges entry.  `'uri' in change`
\* holds when the entry carries the property.
FormatEntry(c) ==
    IF c.kind = "edit"
    THEN <<FormatLine("Edit", urlToFilePath(c.uri), "", <<>>, <<>>)>> \o EditLines(c.edits)
    ELSE IF c.kind = "create" /\ c.uri # Missing
    THEN <<FormatLine("Create", urlToFilePath(c.uri), "", <<>>, <<>>)>>
    ELSE IF c.kind = "delete" /\ c.uri # Missing
    THEN <<FormatLine("Delete", urlToFilePath(c.uri), "", <<>>, <<>>)>>
    ELSE IF c.kind = "rename" /\ c.oldUri # Missing /\ c.newUri # Missing
    THEN <<FormatLine("Rename", urlToFilePath(c.oldUri), urlToFilePath(c.newUri),
                      <<>>, <<>>)>>
    ELSE <<>>

RECURSIVE FormatEntries(_)
FormatEntries(cs) ==
    IF Len(cs) = 0 THEN <<>> ELSE FormatEntry(cs[1]) \o FormatEntries(Tail(cs))

formatWorkspaceEdit(e) == FormatEntries(WorkItems(e))

\* A call of formatWorkspaceEdit on the same WorkspaceEdit, at any moment the
\* applier is not running synchronous code.
Format ==
    /\ ~formatted.called
    /\ formatted' = [called |-> TRUE, lines |-> formatWorkspaceEdit(edit)]
    /\ UNCHANGED <<edit, dryRun, fs, fs0, pc, idx, inflight, sortedEdits, results, error,
                   log, trace>>

(***************************************************************************)
(* The inputs.                                                             *)
(***************************************************************************)
SeqsUpTo(S, n) == UNION {[1..k -> S] : k \in 0..n}

Absent == [present |-> FALSE, items |-> <<>>]
Present(items) == [present |-> TRUE, items |-> items]

\* Edits of the plans of Spec, on the sample file "a\nb".
SampleText == <<"a", NL, "b">>
E1 == TextEdit(Range(Pos(0, 0), Pos(0, 1)), <<"X">>)
E2 == TextEdit(Range(Pos(1, 0), Pos(1, 0)), <<"Y">>)
EBad == TextEdit(Range(Pos(3, 0), Pos(3, 0)), <<"X">>)
PlanEditLists == {<<>>, <<E1, E2>>, <<EBad>>}

Entries ==
    {CreateFile(u) : u \in {UriA, Missing}}
    \cup {DeleteFile(u) : u \in {UriA, Missing}}
    \cup {RenameFile(UriA, UriB), RenameFile(Missing, UriB), RenameFile(UriA, Missing)}
    \cup {TextDocumentEdit(UriA, es) : es \in PlanEditLists}
    \cup {TextDocumentEdit(UriB, <<E1>>)}

LegacyMaps ==
    {Absent, Present(<<>>), Present(<<<<UriB, <<E1, E2>>>>, <<UriA, <<>>>>>>)}

InitCommon ==
    /\ pc = "loop"
    /\ idx = 1
    /\ inflight = NoCall
    /\ sortedEdits = <<>>
    /\ results = <<>>
    /\ error = <<>>
    /\ log = <<>>
    /\ trace = <<>>
    /\ formatted = [called |-> FALSE, lines |-> <<>>]
    /\ fs0 = fs

Init ==
    /\ edit \in [documentChanges : {Absent} \cup {Present(s) : s \in SeqsUpTo(Entries, MaxEntries)},
                 changes : LegacyMaps]
    /\ dryRun \in BOOLEAN
    /\ fs \in {[p \in Paths |-> IF p = PathA THEN File(SampleText) ELSE b] :
                 b \in {NoFile, File(<<"a">>)}}
    /\ InitCommon

Next ==
    \/ ApplyCreate
    \/ ApplyDelete
    \/ ApplyRename
    \/ FileOpDone
    \/ TextBegin
    \/ ReadDone
    \/ WriteDone
    \/ Finish
    \/ Format

Spec == Init /\ [][Next]_vars

(***************************************************************************)
(* SpecText: one text-edit batch on one file, over every list of at most   *)
(* MaxEdits edits whose positions lie on lines 0..1 and characters 0..1    *)
(* and whose ranges satisfy the Range invariant.                           *)
(***************************************************************************)
Positions == {Pos(l, c) : l \in 0..1, c \in 0..1}
Ranges == {r \in {Range(s, e) : s \in Positions, e \in Positions} : PosLeq(r.start, r.end)}
NewTexts == {<<>>, <<"X">>, <<"X", NL, "Y">>}
TextEdits == {TextEdit(r, t) : r \in Ranges, t \in NewTexts}
TextContents == {SampleText, <<"a">>, <<>>}

InitText ==
    /\ edit \in {[documentChanges |-> Present(<<TextDocumentEdit(UriA, es)>>),
                  changes |-> Absent] : es \in SeqsUpTo(TextEdits, MaxEdits)}
    /\ dryRun \in BOOLEAN
    /\ fs \in {[p \in Paths |-> IF p = PathA THEN File(t) ELSE NoFile] :
                 t \in TextContents}
    /\ InitCommon

NextText ==
    \/ TextBegin
    \/ ReadDone
    \/ WriteDone
    \/ Finish
    \/ Format

SpecText == InitText /\ [][NextText]_vars

(***************************************************************************)
(* Reference semantics of a batch: every edit replaces its range of the    *)
(* ORIGINAL content.  The content is taken as one flat string; an edit     *)
(* covers the offsets from Offset(start) up to Offset(end).                *)
(***************************************************************************)
RECURSIVE Offset(_, _)
Offset(lines, p) ==
    IF p.line = 0 THEN p.character
    ELSE Len(lines[1]) + 1 + Offset(Tail(lines), Pos(p.line - 1, p.character))

InBounds(lines, e) ==
    /\ HasLine(lines, e.range.start.line)
    /\ HasLine(lines, e.range.end.line)
    /\ e.range.start.character <= Len(lines[e.range.start.line + 1])
    /\ e.range.end.character <= Len(lines[e.range.end.line + 1])

\* For any two edits, one ends at or before the position where the other starts.
NonOverlapping(es) ==
    \A i, j \in 1..Len(es) :
        i # j => \/ PosLeq(es[i].range.end, es[j].range.start)
                 \/ PosLeq(es[j].range.end, es[i].range.start)

\* The orders of es in which every edit ends at or before the start of each
\* later one (two insertions at one position may go either way).
DocumentOrders(es) ==
    {[i \in 1..Len(es) |-> es[f[i]]] :
        f \in {g \in [1..Len(es) -> 1..Len(es)] :
                 /\ \A i, j \in 1..Len(es) : i # j => g[i] # g[j]
                 /\ \A i, j \in 1..Len(es) :
                        i < j => PosLeq(es[g[i]].range.end, es[g[j]].range.start)}}

\* text with the ranges of ordered (document order) replaced, from offset `from` on.
RECURSIVE Rebuild(_, _, _, _)
Rebuild(text, lines, ordered, from) ==
    IF Len(ordered) = 0 THEN SubSeq(text, from + 1, Len(text))
    ELSE SubSeq(text, from + 1, Offset(lines, ordered[1].range.start))
         \o ordered[1].newText
         \o Rebuild(text, lines, Tail(ordered), Offset(lines, ordered[1].range.end))

IndependentResults(text, es) ==
    {Rebuild(text, Split(text), o, 0) : o \in DocumentOrders(es)}

\* The batch of SpecText and the content of its file before the call.
Batch == edit.documentChanges.items[1].edits
Original == fs0[urlToFilePath(edit.documentChanges.items[1].uri)].text
WellFormedBatch ==
    /\ NonOverlapping(Batch)
    /\ \A i \in 1..Len(Batch) : InBounds(Split(Original), Batch[i])

\* C1: for pairwise non-overlapping in-bounds edits, in any input order, the
\* content that applyTextEdits writes is the content obtained by replacing
\* every edit's range independently against the original content.
C1_IndependentReplacement ==
    (pc = "write" /\ WellFormedBatch) => inflight.data \in IndependentResults(Original, Batch)

(***************************************************************************)
(* Vocabulary of the properties.                                           *)
(***************************************************************************)
Plan == WorkItems(edit)
FileOpKinds == {"create", "delete", "rename"}

\* The text-edit batches of the plan, in plan order.
EditItems == SelectSeq(Plan, LAMBDA it : it.kind = "edit")

\* How many of the first j work items are text-edit batches.
EditCount(j) == Cardinality({k \in 1..j : Plan[k].kind = "edit"})

\* The paths a filesystem call touches.
CallPaths(c) == {c.path, c.to} \ {""}

\* The effect of a successful call on a file system.
Effect(f, c) ==
    IF c.op = "write" THEN [f EXCEPT ![c.path] = [exists |-> TRUE, text |-> c.data]]
    ELSE IF c.op = "delete" THEN [f EXCEPT ![c.path] = [exists |-> FALSE, text |-> <<>>]]
    ELSE IF c.op = "rename"
    THEN [p \in Paths |-> IF p = c.to THEN f[c.path]
                          ELSE IF p = c.path THEN [exists |-> FALSE, text |-> <<>>]
                          ELSE f[p]]
    ELSE f

\* The file system that the calls ended so far leave behind.
RECURSIVE Replay(_, _)
Replay(f, events) ==
    IF Len(events) = 0 THEN f
    ELSE Replay(IF events[1].ev = "end" THEN Effect(f, events[1].call) ELSE f,
                Tail(events))

\* C2: with dryRun = true no filesystem call is ever made, so every file
\* exists and reads as it did before the call.
C2_DryRunTouchesNothing ==
    dryRun => (trace = <<>> /\ inflight = NoCall /\ fs = fs0)

C2_Witness ==
    /\ dryRun
    /\ pc = "done"
    /\ \E i, j \in 1..Len(Plan) :
         /\ Plan[i].kind \in FileOpKinds
         /\ Plan[j].kind = "edit"
         /\ Len(Plan[j].edits) > 0
    /\ Len(log) >= 4

(***************************************************************************)
(* C3                                                                      *)
(***************************************************************************)
Prefix(line, c) == SubSeq(line, 1, Min(c, Len(line)))
Suffix(line, c) == SubSeq(line, Min(c, Len(line)) + 1, Len(line))
CountNL(t) == Cardinality({i \in 1..Len(t) : t[i] = NL})

SingleMultiLineEdit ==
    /\ Len(Batch) = 1
    /\ Batch[1].range.start.line # Batch[1].range.end.line
    /\ HasLine(Split(Original), Batch[1].range.start.line)
    /\ HasLine(Split(Original), Batch[1].range.end.line)

BothForms == edit.documentChanges.present /\ edit.changes.present

UrisOf(c) == {c.uri, c.oldUri, c.newUri} \ {Missing}
DocumentPaths ==
    UNION {{urlToFilePath(u) : u \in UrisOf(edit.documentChanges.items[i])} :
             i \in 1..Len(edit.documentChanges.items)}
LegacyOnlyPaths ==
    {urlToFilePath(edit.changes.items[i][1]) : i \in 1..Len(edit.changes.items)}
        \ DocumentPaths

\* C4: when both forms are present only the documentChanges entries are
\* processed: no file named only in the legacy map is read, written, logged,
\* reported or formatted, one result is returned per documentChanges batch,
\* and the formatter's output is its output without the legacy map.
C4_DocumentChangesPrecedence ==
    BothForms =>
        /\ idx <= Len(edit.documentChanges.items) + 1
        /\ \A i \in 1..Len(trace) : CallPaths(trace[i].call) \cap LegacyOnlyPaths = {}
        /\ \A i \in 1..Len(log) : log[i].path \notin LegacyOnlyPaths
        /\ \A i \in 1..Len(results) :
             results[i].file \notin {RelativePath(p) : p \in LegacyOnlyPaths}
        /\ pc = "done" =>
             Len(results) = Cardinality({i \in 1..Len(edit.documentChanges.items) :
                                           edit.documentChanges.items[i].kind = "edit"})
        /\ formatted.called =>
             /\ \A i \in 1..Len(formatted.lines) :
                  formatted.lines[i].path \notin LegacyOnlyPaths
             /\ formatted.lines = formatWorkspaceEdit([edit EXCEPT !.changes = Absent])

C4_Witness ==
    /\ BothForms
    /\ LegacyOnlyPaths # {}
    /\ ~dryRun
    /\ pc = "done"
    /\ formatted.called
    /\ Len(results) > 0
    /\ fs # fs0

(***************************************************************************)
(* C5                                                                      *)
(***************************************************************************)
\* C5: the filesystem calls of the work items never interleave: every call is
\* ended before the next one starts, the calls appear in plan order, and the
\* one call in flight belongs to the current work item.
C5_OneItemAtATime ==
    /\ \A i \in 1..Len(trace) :
         IF i % 2 = 1
         THEN trace[i].ev = "start"
         ELSE /\ trace[i].ev \in {"end", "fail"}
              /\ trace[i].item = trace[i - 1].item
              /\ trace[i].call = trace[i - 1].call
    /\ \A i, j \in 1..Len(trace) : i < j => trace[i].item <= trace[j].item
    /\ (inflight # NoCall) <=> (Len(trace) % 2 = 1)
    /\ inflight # NoCall =>
         /\ trace[Len(trace)].call = inflight
         /\ trace[Len(trace)].item = idx

C5_Witness ==
    /\ pc = "done"
    /\ Len(trace) >= 6
    /\ \E i, j \in 1..Len(trace) :
         /\ trace[i].item = 1
         /\ trace[j].item = 2
         /\ trace[i].call.path # trace[j].call.path

(***************************************************************************)
(* C6                                                                      *)
(***************************************************************************)
\* C6: a failed filesystem call is the last call ever made; it ends
\* applyWorkspaceEdit with that error at that work item; and after any
\* failure no call and no log line belongs to a later work item and the file
\* system is exactly what the calls that succeeded made of it.
C6_FailureAborts ==
    /\ \A i \in 1..Len(trace) :
         trace[i].ev = "fail" =>
             /\ i = Len(trace)
             /\ pc = "failed"
             /\ idx = trace[i].item
             /\ error = <<"FilesystemFailure", trace[i].call.op, trace[i].call.path>>
    /\ pc = "failed" =>
         /\ error # <<>>
         /\ inflight = NoCall
         /\ \A i \in 1..Len(trace) : trace[i].item <= idx
         /\ \A i \in 1..Len(log) : log[i].item <= idx
         /\ Len(results) = EditCount(idx - 1)
         /\ fs = Replay(fs0, trace)

C6_Witness ==
    /\ pc = "failed"
    /\ idx = 2
    /\ Len(Plan) = 3
    /\ Len(trace) > 0
    /\ trace[Len(trace)].ev = "fail"
    /\ trace[Len(trace)].call.op = "write"
    /\ fs # fs0
    /\ Len(results) = 1

(***************************************************************************)
(* C7                                                                      *)
(***************************************************************************)
Malformed(c) ==
    \/ c.kind \in {"create", "delete"} /\ c.uri = Missing
    \/ c.kind = "rename" /\ (c.oldUri = Missing \/ c.newUri = Missing)

MissingError(c) ==
    IF c.kind = "create" THEN <<"CreateFile missing uri">>
    ELSE IF c.kind = "delete" THEN <<"DeleteFile missing uri">>
    ELSE <<"RenameFile missing oldUri or newUri">>

\* C7: an operation that lacks a required location fails the call at its
\* entry, in preview and in real mode: nothing is logged or called for it or
\* for any later entry, the plan is never completed, and the call never moves
\* past the entry.
C7_MalformedOperationFails ==
    \A j \in 1..Len(Plan) :
        Malformed(Plan[j]) =>
            /\ idx <= j
            /\ pc # "done"
            /\ \A i \in 1..Len(trace) : trace[i].item < j
            /\ \A i \in 1..Len(log) : log[i].item < j
            /\ idx = j => pc \in {"loop", "failed"}
            /\ (idx = j /\ pc = "failed") => error = MissingError(Plan[j])

C7_Witness ==
    /\ pc = "failed"
    /\ dryRun
    /\ idx = 2
    /\ Len(Plan) = 3
    /\ Plan[2].kind = "rename"
    /\ Plan[2].oldUri # Missing
    /\ Malformed(Plan[2])
    /\ Len(log) = 1

(***************************************************************************)
(* C8                                                                      *)
(***************************************************************************)
\* C8: a batch with an empty edit list returns 0 without error, without a log
\* line and without any read or write, in preview and in real mode.
C8_EmptyBatchIsNoOp ==
    \A j \in 1..Len(Plan) :
        (Plan[j].kind = "edit" /\ Plan[j].edits = <<>>) =>
            /\ \A i \in 1..Len(trace) : trace[i].item # j
            /\ \A i \in 1..Len(log) : log[i].item # j
            /\ idx = j => (pc = "loop" /\ inflight = NoCall)
            /\ idx > j =>
                 results[EditCount(j)]
                     = [file |-> RelativePath(urlToFilePath(Plan[j].uri)), changes |-> 0]

C8_Witness ==
    /\ ~dryRun
    /\ pc = "done"
    /\ Len(Plan) = 1
    /\ Plan[1].kind = "edit"
    /\ Plan[1].edits = <<>>
    /\ fs[urlToFilePath(Plan[1].uri)].exists
    /\ results = <<[file |-> "a", changes |-> 0]>>
    /\ fs = fs0

(***************************************************************************)
(* C9                                                                      *)
(***************************************************************************)
\* The descriptions the dry run logged for the batch, in log order.
Descriptions == SelectSeq(log, LAMBDA l : l.what = "edit")

\* Start positions as the descriptions show them (1-based line, character).
StartsNotBefore(d1, d2) ==
    d1.span[1] > d2.span[1] \/ (d1.span[1] = d2.span[1] /\ d1.span[2] >= d2.span[2])

\* C9 as claimed: the dry run describes the edits bottom-to-top, by descending
\* start line and, on equal lines, descending start character.
C9_PreviewInApplyOrder ==
    (dryRun /\ idx > 1) =>
        \A i, j \in 1..Len(Descriptions) :
            i < j => StartsNotBefore(Descriptions[i], Descriptions[j])

\* C9 as amended: the dry run describes the edits top-to-bottom (ascending
\* start line, then ascending start character), in the exact reverse of the
\* order in which the real run applies them.
C9_PreviewReversesApplyOrder ==
    (dryRun /\ idx > 1) =>
        /\ Len(Descriptions) = Len(Batch)
        /\ \A i, j \in 1..Len(Descriptions) :
             i < j => StartsNotBefore(Descriptions[j], Descriptions[i])
        /\ \A i \in 1..Len(Descriptions) :
             LET e == sortedEdits[Len(sortedEdits) + 1 - i]
             IN  /\ Descriptions[i].span = <<e.range.start.line + 1, e.range.start.character,
                                              e.range.end.line + 1, e.range.end.character>>
                 /\ Descriptions[i].text = e.newText

C9_Witness ==
    /\ dryRun
    /\ pc = "done"
    /\ Len(Batch) = 2
    /\ Batch[1].range.start.line < Batch[2].range.start.line
    /\ Len(Descriptions) = 2
    /\ Descriptions[1].span[1] = 1
    /\ Descriptions[2].span[1] = 2

(***************************************************************************)
(* C10                                                                     *)
(***************************************************************************)
\* C10: every {file, changes} entry reports the number of TextEdits of the
\* input list of its batch, in preview and in real mode.
C10_ChangesIsEditCount ==
    /\ Len(results) <= Len(EditItems)
    /\ \A i \in 1..Len(results) :
         /\ results[i].changes = Len(EditItems[i].edits)
         /\ results[i].file = RelativePath(urlToFilePath(EditItems[i].uri))

C10_Witness ==
    /\ pc = "done"
    /\ ~dryRun
    /\ Len(results) = 2
    /\ results[1].changes = 2
    /\ results[2].changes = 0
    /\ fs # fs0

(***************************************************************************)
(* C11                                                                     *)
(***************************************************************************)
ResultFiles == {results[i].file : i \in 1..Len(results)}

\* C11 as claimed: a successful call returns exactly one entry per file that a
\* text-edit batch acted upon.
C11_OneEntryPerFile ==
    pc = "done" =>
        /\ \A i, j \in 1..Len(results) : i # j => results[i].file # results[j].file
        /\ ResultFiles = {RelativePath(urlToFilePath(EditItems[i].uri)) :
                             i \in 1..Len(EditItems)}

\* C11 as amended: a successful call returns exactly one entry per text-edit
\* batch of the plan, in plan order, each naming the file of its batch; file
\* operations contribute no entry.
C11_OneEntryPerBatch ==
    pc = "done" =>
        /\ Len(results) = Len(EditItems)
        /\ \A i \in 1..Len(results) :
             results[i].file = RelativePath(urlToFilePath(EditItems[i].uri))

C11_Witness ==
    /\ pc = "done"
    /\ ~dryRun
    /\ Len(Plan) = 3
    /\ Plan[1].kind = "edit"
    /\ Plan[2].kind \in FileOpKinds
    /\ Plan[3].kind = "edit"
    /\ Len(results) = 2
    /\ results[1].file = "b"
    /\ results[2].file = "a"

(***************************************************************************)
(* C12: the logical inverse of a batch.  With the edits taken in document  *)
(* order, the text an edit inserted starts, in the post-edit content, at   *)
(* the edit's original start offset shifted by the growth of every edit    *)
(* before it, and is as long as its newText; the inverse edit replaces     *)
(* that range by the text the edit replaced.                               *)
(***************************************************************************)
DocumentPerms(es) ==
    {g \in [1..Len(es) -> 1..Len(es)] :
        /\ \A i, j \in 1..Len(es) : i # j => g[i] # g[j]
        /\ \A i, j \in 1..Len(es) :
               i < j => PosLeq(es[g[i]].range.end, es[g[j]].range.start)}

InOrder(es, g) == [k \in 1..Len(es) |-> es[g[k]]]

\* Growth of the content by the first k edits of the document order g.
RECURSIVE Growth(_, _, _, _)
Growth(lines, es, g, k) ==
    IF k = 0 THEN 0
    ELSE Growth(lines, es, g, k - 1)
         + Len(es[g[k]].newText)
         - (Offset(lines, es[g[k]].range.end) - Offset(lines, es[g[k]].range.start))

\* The position of a flat offset in a text.
PosAt(text, off) ==
    LET breaks == {i \in 1..off : text[i] = NL}
        last == IF breaks = {} THEN 0
                ELSE CHOOSE i \in breaks : \A j \in breaks : j <= i
    IN  Pos(Cardinality(breaks), off - last)

\* The inverse batch, in the input order of es: after is the post-edit content.
InverseBatch(before, after, es, g) ==
    [i \in 1..Len(es) |->
        LET k == CHOOSE n \in 1..Len(es) : g[n] = i
            lines == Split(before)
            from == Offset(lines, es[i].range.start) + Growth(lines, es, g, k - 1)
        IN  TextEdit(Range(PosAt(after, from), PosAt(after, from + Len(es[i].newText))),
                     SubSeq(before, Offset(lines, es[i].range.start) + 1,
                            Offset(lines, es[i].range.end)))]

\* The content a real run of applyTextEdits writes for a content it read.
TextAfter(text, edits) ==
    LET r == ApplyAll(Split(text), SortEdits(edits))
    IN  [ok |-> r.ok, text |-> Join(r.lines)]

\* C12: round trip.  For non-overlapping in-bounds edits whose application
\* wrote the intended content, applying the batch of their logical inverses
\* to that content writes the original content back.
C12_RoundTrip ==
    (pc = "write" /\ WellFormedBatch) =>
        \A g \in DocumentPerms(Batch) :
            Rebuild(Original, Split(Original), InOrder(Batch, g), 0) = inflight.data
                => TextAfter(inflight.data,
                             InverseBatch(Original, inflight.data, Batch, g))
                       = [ok |-> TRUE, text |-> Original]

(***************************************************************************)
(* C13                                                                     *)
(***************************************************************************)
\* C13: for a batch the formatter renders a header naming the file, then one
\* line per edit in the input order of the batch, with 1-based line numbers
\* and the character offsets as given.
C13_FormatInInputOrder ==
    formatted.called =>
        /\ Len(formatted.lines) = 1 + Len(Batch)
        /\ formatted.lines[1].what = "Edit"
        /\ formatted.lines[1].path = urlToFilePath(edit.documentChanges.items[1].uri)
        /\ \A k \in 1..Len(Batch) :
             /\ formatted.lines[k + 1].what = "span"
             /\ formatted.lines[k + 1].span
                  = <<Batch[k].range.start.line + 1, Batch[k].range.start.character,
                      Batch[k].range.end.line + 1, Batch[k].range.end.character>>
             /\ formatted.lines[k + 1].text = Batch[k].newText

C13_Witness ==
    /\ formatted.called
    /\ Len(Batch) = 2
    /\ Batch[1].range.start.line = 0
    /\ Batch[2].range.start.line = 1
    /\ Len(formatted.lines) = 3
    /\ formatted.lines[2].span[1] = 1
    /\ formatted.lines[3].span[1] = 2

(***************************************************************************)
(* C14                                                                     *)
(***************************************************************************)
\* C14: no step of the applier changes the WorkspaceEdit, so what the
\* formatter returned before a step is what it returns after it.
C14_ApplierLeavesEditAlone ==
    [][/\ edit' = edit
       /\ formatted.called => formatted'.lines = formatWorkspaceEdit(edit')]_vars

C14_Witness ==
    /\ formatted.called
    /\ pc = "done"
    /\ ~dryRun
    /\ Len(Batch) = 2
    /\ Batch[1].range.start.line < Batch[2].range.start.line
    /\ sortedEdits # Batch
    /\ fs # fs0

(***************************************************************************)
(* C15                                                                     *)
(***************************************************************************)
\* The elements of a non-empty line sequence with one line break between
\* each two neighbours.
RECURSIVE SeparatedByBreaks(_)
SeparatedByBreaks(ls) ==
    IF Len(ls) = 1 THEN ls[1]
    ELSE SeparatedByBreaks(SubSeq(ls, 1, Len(ls) - 1)) \o <<NL>> \o ls[Len(ls)]

CallsOf(op, ev) == {i \in 1..Len(trace) : trace[i].call.op = op /\ trace[i].ev = ev}

\* C15: a real run of a non-empty batch reads the file once and writes it
\* once; the write starts after the read has ended and carries the lines left
\* by the last edit of the sorted order, joined with line breaks; a completed
\* run is exactly read, then write.
C15_OneReadThenOneWrite ==
    (~dryRun /\ Len(Batch) > 0) =>
        /\ Cardinality(CallsOf("read", "start")) <= 1
        /\ Cardinality(CallsOf("write", "start")) <= 1
        /\ \A w \in CallsOf("write", "start") :
             /\ \E r \in CallsOf("read", "end") : r < w
             /\ trace[w].call.path = urlToFilePath(edit.documentChanges.items[1].uri)
             /\ trace[w].call.data
                  = SeparatedByBreaks(ApplyAll(Split(Original), sortedEdits).lines)
        /\ pc = "done" =>
             /\ Len(trace) = 4
             /\ trace[1].call.op = "read"
             /\ trace[3].call.op = "write"
             /\ fs[trace[3].call.path] = [exists |-> TRUE, text |-> trace[3].call.data]

C15_Witness ==
    /\ ~dryRun
    /\ pc = "done"
    /\ Len(Batch) = 2
    /\ Len(trace) = 4
    /\ Len(ApplyAll(Split(Original), sortedEdits).lines) = 3
    /\ fs # fs0

(***************************************************************************)
(* C16: the action line of a file operation.                               *)
(***************************************************************************)
WellFormedOp(c) == c.kind \in FileOpKinds /\ ~Malformed(c)

\* Work item j has got past the guard at its entry.
Entered(j) ==
    \/ j < idx
    \/ j = idx /\ pc = "fileop"
    \/ j = idx /\ pc = "failed" /\ error[1] = "FilesystemFailure"

LogLinesOf(j) == {i \in 1..Len(log) : log[i].item = j}

ActionName(c) ==
    IF c.kind = "create" THEN "Create file"
    ELSE IF c.kind = "delete" THEN "Delete file"
    ELSE "Rename file"

\* C16: every well-formed create, delete or rename that has been entered has
\* exactly one log line; the line names the action and the resolved path(s),
\* differs between preview and real mode in the preview prefix only, and was
\* logged before any filesystem call of the operation.
C16_OneLogLineBeforeActing ==
    \A j \in 1..Len(Plan) :
        (WellFormedOp(Plan[j]) /\ Entered(j)) =>
            /\ Cardinality(LogLinesOf(j)) = 1
            /\ \A i \in LogLinesOf(j) :
                 /\ log[i].what = ActionName(Plan[j])
                 /\ log[i].dry = dryRun
                 /\ log[i].path = urlToFilePath(IF Plan[j].kind = "rename"
                                                THEN Plan[j].oldUri ELSE Plan[j].uri)
                 /\ log[i].to = (IF Plan[j].kind = "rename"
                                 THEN urlToFilePath(Plan[j].newUri) ELSE "")
                 /\ \A t \in 1..Len(trace) :
                      trace[t].item = j => t > log[i].calls

C16_Witness ==
    /\ ~dryRun
    /\ pc = "done"
    /\ Len(Plan) = 3
    /\ Plan[1].kind = "create"
    /\ Plan[2].kind = "rename"
    /\ WellFormedOp(Plan[2])
    /\ Len(log) = 3
    /\ log[2].calls = 2
    /\ trace[3].item = 2

(***************************************************************************)
(* C17: the failures of a text-edit batch.                                 *)
(***************************************************************************)
\* C17 as stated: a batch whose read and write succeed completes and
\* returns its edit count, so a batch can only end in a failed read or a
\* failed write.
C17_OnlyFilesystemFailures ==
    pc = "failed" =>
        /\ error[1] = "FilesystemFailure"
        /\ Len(trace) > 0
        /\ trace[Len(trace)].ev = "fail"

(***************************************************************************)
(* C18: the report lines of file operations.                               *)
(***************************************************************************)
FileOps == SelectSeq(Plan, LAMBDA c : c.kind \in FileOpKinds)

OpLines == SelectSeq(formatted.lines, LAMBDA l : l.what \in {"Create", "Delete", "Rename"})

OpLine(c) ==
    [what |-> IF c.kind = "create" THEN "Create"
              ELSE IF c.kind = "delete" THEN "Delete" ELSE "Rename",
     path |-> urlToFilePath(IF c.kind = "rename" THEN c.oldUri ELSE c.uri),
     to |-> IF c.kind = "rename" THEN urlToFilePath(c.newUri) ELSE "",
     span |-> <<>>, text |-> <<>>]

\* C18 as stated: the report has one line for each file operation of the
\* plan, in plan order, naming its action and its path(s); none is left out.
C18_EveryFileOperationRendered ==
    formatted.called =>
        OpLines = [i \in 1..Len(FileOps) |-> OpLine(FileOps[i])]

(***************************************************************************)
(* C19: a batch that fails before its write leaves the file alone.         *)
(***************************************************************************)
\* The line sequence after every edit of the sorted order has been applied:
\* one element, or none when some edit addresses a line that does not exist
\* at its turn.
RECURSIVE AllApplied(_, _)
AllApplied(lines, sorted) ==
    IF Len(sorted) = 0 THEN {lines}
    ELSE IF ApplyEdit(lines, sorted[1]).ok
         THEN AllApplied(ApplyEdit(lines, sorted[1]).lines, Tail(sorted))
         ELSE {}

BatchPath == urlToFilePath(edit.documentChanges.items[1].uri)

\* C19: in real mode a batch that fails before its write (failed read, or
\* an edit addressing a line that does not exist) has made no write and the
\* file system is what it was; at every moment the target file holds either
\* its original content or the result of all the edits, never of some.
C19_AllOrNothing ==
    ~dryRun =>
        /\ fs[BatchPath].text # Original =>
              fs[BatchPath].text \in
                  {SeparatedByBreaks(ls) :
                     ls \in AllApplied(Split(Original), SortEdits(Batch))}
        /\ \A p \in Paths \ {BatchPath} : fs[p] = fs0[p]
        /\ (CallsOf("write", "start") # {} \/ fs # fs0) =>
              AllApplied(Split(Original), SortEdits(Batch)) # {}
        /\ (pc = "failed" /\ trace[Len(trace)].call.op = "read") =>
              /\ CallsOf("write", "start") = {}
              /\ fs = fs0

C19_Witness ==
    /\ ~dryRun
    /\ pc = "failed"
    /\ error = <<"TypeError">>
    /\ Len(Batch) = 2
    /\ ApplyEdit(Split(Original), sortedEdits[1]).ok
    /\ ApplyEdit(Split(Original), sortedEdits[1]).lines # Split(Original)
    /\ fs = fs0

(***************************************************************************)
(* C20: edits that start at the same position.                             *)
(***************************************************************************)
\* The batch has been sorted (line 106 has run).
Sorted == Len(Batch) > 0 /\ (idx > 1 \/ pc \in {"read", "write", "failed"})

\* The sorted order is the batch by descending start, and edits with equal
\* starts are in their input order.
TiesInInputOrder ==
    Sorted =>
        \E g \in [1..Len(Batch) -> 1..Len(Batch)] :
            /\ sortedEdits = InOrder(Batch, g)
            /\ \A k, m \in 1..Len(Batch) :
                 k < m =>
                     /\ g[k] # g[m]
                     /\ PosLeq(Batch[g[m]].range.start, Batch[g[k]].range.start)
                     /\ Batch[g[k]].range.start = Batch[g[m]].range.start => g[k] < g[m]

\* Two zero-width insertions at one position of an existing line.
TwoInsertionsAtOnePosition ==
    /\ Len(Batch) = 2
    /\ Batch[1].range.start = Batch[1].range.end
    /\ Batch[2].range.start = Batch[2].range.end
    /\ Batch[1].range.start = Batch[2].range.start
    /\ HasLine(Split(Original), Batch[1].range.start.line)

\* The content with the text of the later insertion put before the text of
\* the earlier one, at their position.
LaterTextFirst ==
    LET old == Split(Original)
        l == Batch[1].range.start.line + 1
        c == Batch[1].range.start.character
    IN  SeparatedByBreaks([old EXCEPT ![l] = Prefix(old[l], c) \o Batch[2].newText
                                             \o Batch[1].newText \o Suffix(old[l], c)])

\* C20 as claimed: ties keep input order, and of two zero-width insertions
\* at the same position the text of the later one is written before the text
\* of the earlier one.
C20_LaterInsertionFirst ==
    /\ TiesInInputOrder
    /\ (pc = "write" /\ TwoInsertionsAtOnePosition) => inflight.data = LaterTextFirst

\* C20 as amended: ties keep input order, and of two zero-width insertions
\* at the same position the text of the later one is written before the text
\* of the earlier one when the position is not past the end of its line.  At
\* a position d characters past the end of the line the later text is
\* written after the first d characters of the earlier text.
C20_TiesKeepInputOrder ==
    /\ TiesInInputOrder
    /\ (pc = "write" /\ TwoInsertionsAtOnePosition) =>
          LET old == Split(Original)
              l == Batch[1].range.start.line + 1
              c == Batch[1].range.start.character
              d == Min(c - Len(old[l]), Len(Batch[1].newText))
          IN  /\ c <= Len(old[l]) => inflight.data = LaterTextFirst
              /\ c > Len(old[l]) =>
                    inflight.data
                      = SeparatedByBreaks(
                          [old EXCEPT ![l] = old[l] \o SubSeq(Batch[1].newText, 1, d)
                                             \o Batch[2].newText
                                             \o SubSeq(Batch[1].newText, d + 1,
                                                       Len(Batch[1].newText))])

C20_Witness ==
    /\ pc = "write"
    /\ TwoInsertionsAtOnePosition
    /\ Batch[1].range.start.character <= Len(Split(Original)[Batch[1].range.start.line + 1])
    /\ Batch[1].newText = <<"X">>
    /\ Batch[2].newText = <<"X", NL, "Y">>
    /\ inflight.data # Original

=============================================================================
